---- MODULE Spec2Model ----
(***************************************************************************)
(* A model of plugin.js, the Express adapter of AdminBro: buildRouter,     *)
(* buildAuthenticatedRouter, and the requests served by the routers they   *)
(* build.  Strings that the code inspects character by character (paths,   *)
(* URLs) are sequences of one-character strings.                           *)
(***************************************************************************)
EXTENDS Integers, Sequences, FiniteSets, TLC

VARIABLES
  \* ---- building a router
  deps,             \* which optional require of the module's try block failed
  adminArg,         \* the `admin` argument of the build call
  predefinedRouter, \* the `predefinedRouter` argument: Absent, or its layers
  routes,           \* AdminBro.Router.routes
  called,           \* which build function has been called ("none" before)
  router,           \* the layers of the router object the call worked on
  thrown,           \* the name of the error the call threw, "none" otherwise
  returned,         \* what the call returned: "none", "predefined", "new"
  \* ---- path translation on its own
  tpl,              \* a path template, as its segments
  path,             \* route.path: the template's text
  xpath,            \* expressPath
  pstep,            \* "tpl", "path", "xpath"
  \* ---- serving requests
  store,            \* the MemoryStore: session id -> stored session
  nextSid,          \* the next session id the session middleware generates
  reqs,             \* the requests in flight, in order of arrival
  last,             \* the request that has just completed, NoRequest otherwise
  destroyed,        \* the session ids whose session a logout has destroyed,
                    \* and on which no login POST has arrived since
  \* ---- a client without a session following redirects
  options,          \* admin.options: rootPath, loginPath, logoutPath
  url,              \* the URL the client requests next
  hops,             \* the redirects it has followed
  page              \* what it was answered with in the end, "none" before

buildVars == <<deps, adminArg, predefinedRouter, routes, called, router, thrown, returned>>
pathVars  == <<tpl, path, xpath, pstep>>
serveVars == <<store, nextSid, reqs, last, destroyed>>
followVars == <<options, url, hops, page>>
vars      == <<deps, adminArg, predefinedRouter, routes, called, router, thrown,
               returned, tpl, path, xpath, pstep, store, nextSid, reqs, last, destroyed,
               options, url, hops, page>>

----------------------------------------------------------------------------
(* Strings *)

\* s.replace(sub, '') with a string pattern: the first occurrence only.
OccursAt(s, sub, i) ==
  /\ i + Len(sub) - 1 <= Len(s)
  /\ \A j \in 1..Len(sub) : s[i + j - 1] = sub[j]

RemoveFirst(s, sub) ==
  IF \E i \in 1..Len(s) : OccursAt(s, sub, i)
  THEN LET i == CHOOSE i \in 1..Len(s) :
                  /\ OccursAt(s, sub, i)
                  /\ \A k \in 1..(i - 1) : ~OccursAt(s, sub, k)
       IN  SubSeq(s, 1, i - 1) \o SubSeq(s, i + Len(sub), Len(s))
  ELSE s

\* route.path.replace(/{/g, ':').replace(/}/g, '')
ReplaceOpenBrace(s) == [i \in 1..Len(s) |-> IF s[i] = "{" THEN ":" ELSE s[i]]

IsNotCloseBrace(c) == c # "}"

RemoveCloseBrace(s) == SelectSeq(s, IsNotCloseBrace)

\* As if the two patterns lacked the g flag: the first brace of each kind only.
expressPathFirstOnly(p) ==
  LET opened == IF \E i \in 1..Len(p) : p[i] = "{"
                THEN LET i == CHOOSE i \in 1..Len(p) :
                                /\ p[i] = "{"
                                /\ \A k \in 1..(i - 1) : p[k] # "{"
                     IN  [p EXCEPT ![i] = ":"]
                ELSE p
  IN  RemoveFirst(opened, << "}" >>)

expressPath(p) == RemoveCloseBrace(ReplaceOpenBrace(p))

----------------------------------------------------------------------------
(* What the module and its callers are given *)

Absent == "absent"

\* The optional requires of the try block run in order; the first that fails
\* leaves its own binding and the later ones undefined.
DepsStates == {"all", "noCookieParser", "noExpressSession", "noMemoryStore"}

cookieParserLoaded == deps \notin {"noCookieParser"}

sessionLoaded == deps \notin {"noCookieParser", "noExpressSession"}

MemoryStoreLoaded == deps = "all"

\* admin.options of the AdminBro instance the served router is built for.
rootPath == <<"/", "m">>

optionsLoginPath == <<"/", "m", "/", "l">>

optionsLogoutPath == <<"/", "m", "/", "o">>

\* The values passed as `admin`: what the code reads of them is their
\* truthiness, their constructor's name and their options.
AdminBroInstance ==
  [truthy |-> TRUE, ctor |-> "AdminBro", hasOptions |-> TRUE, isAdmin |-> TRUE]

AdminArgs ==
  { AdminBroInstance,
    \* undefined
    [truthy |-> FALSE, ctor |-> "none", hasOptions |-> FALSE, isAdmin |-> FALSE],
    \* {}
    [truthy |-> TRUE, ctor |-> "Object", hasOptions |-> FALSE, isAdmin |-> FALSE],
    \* { options: {...} }
    [truthy |-> TRUE, ctor |-> "Object", hasOptions |-> TRUE, isAdmin |-> FALSE],
    \* Object.create(null)
    [truthy |-> TRUE, ctor |-> "none", hasOptions |-> FALSE, isAdmin |-> FALSE],
    \* an instance of an unrelated class that is named AdminBro
    [truthy |-> TRUE, ctor |-> "AdminBro", hasOptions |-> TRUE, isAdmin |-> FALSE] }

\* AdminBro.Router.assets
assets == << [path |-> <<"/", "a", ".", "j">>, src |-> "app.js"] >>

----------------------------------------------------------------------------
(* Routers: a router is the sequence of its layers, in registration order *)

Use(n) == [kind |-> "use", name |-> n, method |-> "*", path |-> <<>>, idx |-> 0]

Route(n, m, p, i) == [kind |-> "route", name |-> n, method |-> m, path |-> p, idx |-> i]

\* A body of routes.forEach that would register every descriptor with router.get.
RegisterRouteAllAsGet(route, i) == << Route("handler", "GET", expressPath(route.path), i) >>

\* The body of routes.forEach for descriptor number i.
RegisterRoute(route, i) ==
  (IF route.method = "GET"
   THEN << Route("handler", "GET", expressPath(route.path), i) >> ELSE << >>)
  \o
  (IF route.method = "POST"
   THEN << Route("handler", "POST", expressPath(route.path), i) >> ELSE << >>)

RECURSIVE RegisterRoutes(_, _)
RegisterRoutes(rts, i) ==
  IF i > Len(rts) THEN << >>
  ELSE RegisterRoute(rts[i], i) \o RegisterRoutes(rts, i + 1)

RegisterAssets == [i \in 1..Len(assets) |-> Route("asset", "GET", assets[i].path, i)]

\* The guard of buildRouter: the name of the error it throws, or "none".
AdminCheck(a) ==
  IF ~a.truthy THEN "WrongArgumentError"
  ELSE IF a.ctor = "none" THEN "TypeError"
  ELSE IF a.ctor # "AdminBro" THEN "WrongArgumentError"
  ELSE "none"

\* A buildRouter that would register the body parsers before it looks at
\* its argument.
buildRouterChecksLate(a, pre, rts) ==
  LET base == IF pre = Absent THEN << >> ELSE pre
  IN  IF AdminCheck(a) # "none"
      THEN [layers |-> base \o << Use("json"), Use("urlencoded") >>,
            thrown |-> AdminCheck(a), returned |-> "none"]
      ELSE [layers |-> base \o << Use("json"), Use("urlencoded") >>
                            \o RegisterRoutes(rts, 1) \o RegisterAssets,
            thrown |-> "none",
            returned |-> IF pre = Absent THEN "new" ELSE "predefined"]

\* A buildRouter that would always work on a router of its own.
buildRouterOwnRouter(a, pre, rts) ==
  IF AdminCheck(a) # "none"
  THEN [layers |-> IF pre = Absent THEN << >> ELSE pre, thrown |-> AdminCheck(a),
        returned |-> "none"]
  ELSE [layers |-> << Use("json"), Use("urlencoded") >>
                     \o RegisterRoutes(rts, 1) \o RegisterAssets,
        thrown |-> "none", returned |-> "new"]

\* buildRouter(admin, predefinedRouter): the layers of the router it worked
\* on, the error it threw, and whether it returned a router of its own.
buildRouter(a, pre, rts) ==
  LET base == IF pre = Absent THEN << >> ELSE pre
  IN  IF AdminCheck(a) # "none"
      THEN [layers |-> base, thrown |-> AdminCheck(a), returned |-> "none"]
      ELSE [layers |-> base \o << Use("json"), Use("urlencoded") >>
                            \o RegisterRoutes(rts, 1) \o RegisterAssets,
            thrown |-> "none",
            returned |-> IF pre = Absent THEN "new" ELSE "predefined"]

\* loginPath and logoutPath as registered: admin.options' with rootPath removed.
loginPath == RemoveFirst(optionsLoginPath, rootPath)

logoutPath == RemoveFirst(optionsLogoutPath, rootPath)

\* A buildAuthenticatedRouter that would register the logout route with the
\* login routes, ahead of the gate.
buildAuthenticatedRouterLogoutFirst(a, pre, rts) ==
  LET base == IF pre = Absent THEN << >> ELSE pre
      ret  == IF pre = Absent THEN "new" ELSE "predefined"
      withCookies == base \o << Use("cookieParser") >>
      withParsers == withCookies \o << Use("session"), Use("json"), Use("urlencoded") >>
      gated == withParsers \o << Route("loginGet", "GET", loginPath, 0),
                                 Route("loginPost", "POST", loginPath, 0),
                                 Route("logout", "GET", logoutPath, 0),
                                 Use("gate") >>
      inner == buildRouter(a, gated, rts)
  IN  IF ~cookieParserLoaded \/ ~sessionLoaded
      THEN [layers |-> base, thrown |-> "Error", returned |-> "none"]
      ELSE IF ~MemoryStoreLoaded
      THEN [layers |-> withCookies, thrown |-> "TypeError", returned |-> "none"]
      ELSE IF ~a.truthy \/ ~a.hasOptions
      THEN [layers |-> withParsers, thrown |-> "TypeError", returned |-> "none"]
      ELSE [layers |-> inner.layers, thrown |-> inner.thrown,
            returned |-> IF inner.thrown = "none" THEN ret ELSE "none"]

\* buildAuthenticatedRouter(admin, auth, predefinedRouter)
buildAuthenticatedRouter(a, pre, rts) ==
  LET base == IF pre = Absent THEN << >> ELSE pre
      ret  == IF pre = Absent THEN "new" ELSE "predefined"
      withCookies == base \o << Use("cookieParser") >>
      withParsers == withCookies \o << Use("session"), Use("json"), Use("urlencoded") >>
      gated == withParsers \o << Route("loginGet", "GET", loginPath, 0),
                                 Route("loginPost", "POST", loginPath, 0),
                                 Use("gate"),
                                 Route("logout", "GET", logoutPath, 0) >>
      inner == buildRouter(a, gated, rts)
  IN  IF ~cookieParserLoaded \/ ~sessionLoaded
      THEN [layers |-> base, thrown |-> "Error", returned |-> "none"]
      ELSE IF ~MemoryStoreLoaded
      \* new MemoryStore(...) is evaluated after cookieParser is registered
      THEN [layers |-> withCookies, thrown |-> "TypeError", returned |-> "none"]
      ELSE IF ~a.truthy \/ ~a.hasOptions
      \* admin.options, and the destructuring of it
      THEN [layers |-> withParsers, thrown |-> "TypeError", returned |-> "none"]
      ELSE [layers |-> inner.layers, thrown |-> inner.thrown,
            returned |-> IF inner.thrown = "none" THEN ret ELSE "none"]


----------------------------------------------------------------------------
(* Path templates, as the route descriptors of AdminBro spell them *)

MaxSegments == 3

LiteralSegments == { [ph |-> FALSE, text |-> << "/" >>], [ph |-> FALSE, text |-> << "r" >>] }

PlaceholderSegments ==
  { [ph |-> TRUE, text |-> << "i" >>], [ph |-> TRUE, text |-> << "i", "d" >>] }

Segments == LiteralSegments \cup PlaceholderSegments

Templates == UNION { [1..n -> Segments] : n \in 0..MaxSegments }

RECURSIVE TemplateText(_)
TemplateText(t) ==
  IF t = << >> THEN << >>
  ELSE (IF Head(t).ph THEN << "{" >> \o Head(t).text \o << "}" >> ELSE Head(t).text)
       \o TemplateText(Tail(t))

----------------------------------------------------------------------------
(* The three state machines share the variables; each leaves the others' at rest *)

MaxRoutes == 2

RoutePaths == { << "/", "r" >>, << "/", "r", "/", "{", "i", "}" >> }

RouteDescriptors == [method : {"GET", "POST", "DELETE"}, path : RoutePaths]

RouteLists == UNION { [1..n -> RouteDescriptors] : n \in 0..MaxRoutes }

PredefinedRouters == { Absent, << >>, << Use("custom") >> }

\* null and undefined, where the code reads a value for its truthiness.
NULL == "null"

\* What the model keeps of a request: where its handler stands (pc), what
\* the middlewares made of it, and what was answered.
NoRequest ==
  [pc |-> "none", method |-> "", rpath |-> << >>, query |-> << >>,
   sid |-> 0, loaded |-> NULL, sess |-> NULL, adminUser |-> "undefined",
   gate |-> "notReached", name |-> "none", idx |-> 0, ctlUser |-> "none",
   authResult |-> "none", result |-> "none", resp |-> "none", body |-> "none",
   target |-> << >>, threw |-> FALSE,
   logged |-> FALSE, rejected |-> FALSE, nextErr |-> FALSE]

\* The routes of the router that serves requests.
ServedRoutes ==
  << [method |-> "GET", path |-> << "/", "r", "/", "{", "i", "}" >>],
     [method |-> "POST", path |-> << "/", "r" >>] >>

BuildAtRest ==
  /\ deps = "all"
  /\ adminArg = AdminBroInstance
  /\ predefinedRouter = Absent
  /\ routes = ServedRoutes
  /\ called = "buildAuthenticatedRouter"
  /\ router = buildAuthenticatedRouter(AdminBroInstance, Absent, ServedRoutes).layers
  /\ thrown = "none"
  /\ returned = "new"

PathAtRest ==
  /\ tpl = << >>
  /\ path = << >>
  /\ xpath = << >>
  /\ pstep = "xpath"

ServeAtRest ==
  /\ store = << >>
  /\ nextSid = 1
  /\ reqs = << >>
  /\ last = NoRequest
  /\ destroyed = {}

\* admin.options of the AdminBro instance the served router is built for.
ServedOptions ==
  [rootPath |-> rootPath, loginPath |-> optionsLoginPath, logoutPath |-> optionsLogoutPath]

FollowAtRest ==
  /\ options = ServedOptions
  /\ url = << >>
  /\ hops = 0
  /\ page = "none"

----------------------------------------------------------------------------
(* Building a router *)

InitBuild ==
  /\ deps \in DepsStates
  /\ adminArg \in AdminArgs
  /\ predefinedRouter \in PredefinedRouters
  /\ routes \in RouteLists
  /\ called = "none"
  /\ router = IF predefinedRouter = Absent THEN << >> ELSE predefinedRouter
  /\ thrown = "none"
  /\ returned = "none"
  /\ PathAtRest
  /\ ServeAtRest
  /\ FollowAtRest

CallBuildRouter ==
  /\ called = "none"
  /\ LET r == buildRouter(adminArg, predefinedRouter, routes)
     IN  /\ router' = r.layers
         /\ thrown' = r.thrown
         /\ returned' = r.returned
  /\ called' = "buildRouter"
  /\ UNCHANGED <<deps, adminArg, predefinedRouter, routes, pathVars, serveVars, followVars>>

CallBuildAuthenticatedRouter ==
  /\ called = "none"
  /\ LET r == buildAuthenticatedRouter(adminArg, predefinedRouter, routes)
     IN  /\ router' = r.layers
         /\ thrown' = r.thrown
         /\ returned' = r.returned
  /\ called' = "buildAuthenticatedRouter"
  /\ UNCHANGED <<deps, adminArg, predefinedRouter, routes, pathVars, serveVars, followVars>>

NextBuild == CallBuildRouter \/ CallBuildAuthenticatedRouter

SpecBuild == InitBuild /\ [][NextBuild]_vars

----------------------------------------------------------------------------
(* Translating one path *)

InitPath ==
  /\ tpl \in Templates
  /\ path = << >>
  /\ xpath = << >>
  /\ pstep = "tpl"
  /\ BuildAtRest
  /\ ServeAtRest
  /\ FollowAtRest

\* AdminBro hands the template over as text: route.path.
ReadRoutePath ==
  /\ pstep = "tpl"
  /\ path' = TemplateText(tpl)
  /\ pstep' = "path"
  /\ UNCHANGED <<tpl, xpath, buildVars, serveVars, followVars>>

TranslatePath ==
  /\ pstep = "path"
  /\ xpath' = expressPath(path)
  /\ pstep' = "xpath"
  /\ UNCHANGED <<tpl, path, buildVars, serveVars, followVars>>

NextPath == ReadRoutePath \/ TranslatePath

SpecPath == InitPath /\ [][NextPath]_vars


----------------------------------------------------------------------------
(* Serving requests with the router buildAuthenticatedRouter returned,      *)
(* mounted at rootPath                                                      *)

MaxSid == 2

MaxSessions == 1

MaxInFlight == 2

Principals == {"u1", "u2"}

\* The session store is a function of the session ids that have an entry.
Put(f, k, v) == [x \in (DOMAIN f) \cup {k} |-> IF x = k THEN v ELSE f[x]]

Del(f, k) == [x \in (DOMAIN f) \ {k} |-> f[x]]

\* What clients ask for: the path below the mount point, and the query.
Request(m, p, q) == [method |-> m, rpath |-> p, query |-> q]

Requests ==
  { Request("GET", << "/", "l" >>, << >>),
    Request("POST", << "/", "l" >>, << >>),
    Request("GET", << "/", "o" >>, << >>),
    Request("GET", << "/", "r", "/", "x" >>, << >>),
    Request("GET", << "/", "r", "/", "x" >>, << "/", "a", ".", "j" >>),
    Request("GET", << "/", "a", ".", "j" >>, << >>) }

originalUrl(r) ==
  rootPath \o r.rpath \o (IF r.query = << >> THEN << >> ELSE << "?" >> \o r.query)

\* String.prototype.match with a string argument: the string is compiled to
\* a regular expression, which matches anywhere in the subject and in which
\* "." stands for any character.
RegExpMatchAt(subject, pattern, i) ==
  /\ i + Len(pattern) - 1 <= Len(subject)
  /\ \A j \in 1..Len(pattern) : pattern[j] = "." \/ subject[i + j - 1] = pattern[j]

StringMatch(subject, pattern) ==
  \E i \in 1..(Len(subject) + 1) : RegExpMatchAt(subject, pattern, i)

\* The router's own matching of a route path: literal characters, and
\* ":name" for one non-empty path segment.
RunLength(s) ==
  IF \E i \in 1..Len(s) : s[i] = "/"
  THEN (CHOOSE i \in 1..Len(s) : s[i] = "/" /\ \A k \in 1..(i - 1) : s[k] # "/") - 1
  ELSE Len(s)

RECURSIVE PathMatch(_, _)
PathMatch(pattern, s) ==
  IF pattern = << >> THEN s = << >> \/ s = << "/" >>
  ELSE IF Head(pattern) = ":"
  THEN LET n == RunLength(Tail(pattern))
           m == RunLength(s)
       IN  /\ m >= 1
           /\ PathMatch(SubSeq(pattern, n + 2, Len(pattern)), SubSeq(s, m + 1, Len(s)))
  ELSE /\ s # << >>
       /\ Head(s) = Head(pattern)
       /\ PathMatch(Tail(pattern), Tail(s))

NewRequest(q) ==
  [NoRequest EXCEPT !.pc = "dispatch", !.method = q.method, !.rpath = q.rpath,
                    !.query = q.query]

\* The session middleware: the stored session of the cookie's id when there
\* is one, a new session under a newly generated id otherwise.
LoadSession(r, c) ==
  IF c \in DOMAIN store
  THEN [r EXCEPT !.sid = c, !.loaded = store[c], !.sess = store[c]]
  ELSE [r EXCEPT !.sid = nextSid, !.loaded = NULL, !.sess = NULL]

\* The gate middleware.
Gate(r) ==
  IF \E i \in 1..Len(assets) : StringMatch(originalUrl(r), assets[i].path)
  THEN [r EXCEPT !.gate = "asset"]
  ELSE IF r.sess # NULL
  THEN [r EXCEPT !.gate = "session"]
  ELSE [r EXCEPT !.gate = "redirect", !.resp = "redirect", !.target = optionsLoginPath,
                 !.pc = "done"]

\* GET loginPath and POST loginPath, up to their first await.
LoginGetStart(r) == [r EXCEPT !.name = "loginGet", !.pc = "renderLogin"]

LoginPostStart(r) == [r EXCEPT !.name = "loginPost", !.pc = "authenticate"]

\* GET logoutPath.
Logout(r) ==
  [r EXCEPT !.name = "logout", !.sess = "destroyed", !.resp = "redirect",
            !.target = optionsLoginPath, !.pc = "done"]

\* A route's handler up to its await: the controller is constructed inside
\* the try block.
HandlerStart(r, i, oc) ==
  IF oc = "throws"
  THEN [r EXCEPT !.name = "handler", !.idx = i, !.threw = TRUE, !.logged = TRUE,
                 !.pc = "done"]
  ELSE [r EXCEPT !.name = "handler", !.idx = i, !.ctlUser = r.adminUser, !.pc = "action"]

\* An asset's handler: res.sendFile(path.resolve(asset.src)), with no try
\* block around it.  sendFile hands a failed transfer to next(err).
AssetHandler(r, i, oc) ==
  IF oc = "throws"
  THEN [r EXCEPT !.name = "asset", !.idx = i, !.threw = TRUE, !.rejected = TRUE,
                 !.pc = "done"]
  ELSE IF oc = "fileError"
  THEN [r EXCEPT !.name = "asset", !.idx = i, !.nextErr = TRUE, !.resp = "error",
                 !.pc = "done"]
  ELSE [r EXCEPT !.name = "asset", !.idx = i, !.resp = "file", !.pc = "done"]

RunHandler(r, layer, oc) ==
  CASE layer.name = "loginGet"  -> LoginGetStart(r)
    [] layer.name = "loginPost" -> LoginPostStart(r)
    [] layer.name = "logout"    -> Logout(r)
    [] layer.name = "handler"   -> HandlerStart(r, layer.idx, oc)
    [] layer.name = "asset"     -> AssetHandler(r, layer.idx, oc)

\* The router hands the request to its layers in registration order, up to
\* the first that answers or awaits.
RECURSIVE Dispatch(_, _, _, _)
Dispatch(r, c, i, oc) ==
  IF i > Len(router)
  THEN [r EXCEPT !.resp = "notFound", !.pc = "done"]
  ELSE LET layer == router[i]
       IN  IF layer.kind = "use"
           THEN IF layer.name = "session" THEN Dispatch(LoadSession(r, c), c, i + 1, oc)
                ELSE IF layer.name = "gate"
                THEN LET g == Gate(r)
                     IN  IF g.pc = "done" THEN g ELSE Dispatch(g, c, i + 1, oc)
                ELSE Dispatch(r, c, i + 1, oc)
           ELSE IF layer.method = r.method /\ PathMatch(layer.path, r.rpath)
                THEN RunHandler(r, layer, oc)
                ELSE Dispatch(r, c, i + 1, oc)

\* A logout that would empty the store.
StoreAfterLogoutOfAll(r) ==
  IF r.sess = "destroyed" THEN << >>
  ELSE IF r.resp # "none" THEN Put(store, r.sid, r.sess)
  ELSE store

\* The end of a response is where the session middleware writes the
\* request's session back under its id (resave and saveUninitialized are
\* left at their defaults); a destroyed session is not written, and a
\* request that is never answered writes nothing.
StoreAfter(r) ==
  IF r.sess = "destroyed" THEN Del(store, r.sid)
  ELSE IF r.resp # "none" THEN Put(store, r.sid, r.sess)
  ELSE store

DestroyedAfter(r) ==
  IF r.sess = "destroyed" THEN destroyed \cup {r.sid} ELSE destroyed

DestroyedOnArrival(r) ==
  IF r.name = "loginPost" THEN destroyed \ {r.sid} ELSE destroyed

Without(q, s) == SubSeq(q, 1, s - 1) \o SubSeq(q, s + 1, Len(q))

Complete(s, r) ==
  /\ reqs' = Without(reqs, s)
  /\ last' = r
  /\ store' = StoreAfter(r)
  /\ destroyed' = DestroyedAfter(r)
  /\ UNCHANGED <<nextSid, buildVars, pathVars, followVars>>

Init ==
  /\ BuildAtRest
  /\ PathAtRest
  /\ FollowAtRest
  /\ store = << >>
  /\ destroyed = {}
  /\ nextSid = 1
  /\ reqs = << >>
  /\ last = NoRequest

\* What may go wrong in the handler a request reaches: a route's controller
\* or an asset's transfer.
OutcomesFor(q) ==
  IF q.rpath \in {loginPath, logoutPath} THEN {"ok"} ELSE {"ok", "throws", "fileError"}

\* A request arrives and runs up to its first await, or to its end.
Arrive ==
  /\ last = NoRequest
  /\ \E q \in Requests, c \in 0..(nextSid - 1) :
       \E oc \in OutcomesFor(q) :
         \E r \in {Dispatch(NewRequest(q), c, 1, oc)} :
           LET fresh == c \notin DOMAIN store
           IN  /\ fresh => nextSid <= MaxSid /\ Cardinality(DOMAIN store) < MaxSessions
               /\ nextSid' = IF fresh THEN nextSid + 1 ELSE nextSid
               /\ IF r.pc = "done"
                  THEN /\ last' = r
                       /\ store' = StoreAfter(r)
                       /\ destroyed' = DestroyedAfter(r)
                       /\ UNCHANGED reqs
                  ELSE /\ Len(reqs) < MaxInFlight
                       /\ reqs' = Append(reqs, r)
                       /\ destroyed' = DestroyedOnArrival(r)
                       /\ UNCHANGED <<store, last>>
               /\ UNCHANGED <<buildVars, pathVars, followVars>>

\* GET loginPath after renderLogin: res.send(login)
LoginRendered ==
  \E s \in 1..Len(reqs) :
    /\ reqs[s].pc = "renderLogin"
    /\ last = NoRequest
    /\ Complete(s, [reqs[s] EXCEPT !.resp = "form", !.pc = "done"])

\* A POST loginPath whose failure branch would reset req.session.adminUser.
AfterAuthenticateClearing(r, u) ==
  IF u # NULL
  THEN [r EXCEPT !.authResult = u, !.sess = u, !.resp = "redirect", !.target = rootPath,
                 !.pc = "done"]
  ELSE [r EXCEPT !.authResult = u, !.sess = NULL, !.pc = "renderLoginError"]

\* POST loginPath after auth.authenticate(email, password) returned u
AfterAuthenticate(r, u) ==
  IF u # NULL
  THEN [r EXCEPT !.authResult = u, !.sess = u, !.resp = "redirect", !.target = rootPath,
                 !.pc = "done"]
  ELSE [r EXCEPT !.authResult = u, !.pc = "renderLoginError"]

AuthenticateReturns ==
  \E s \in 1..Len(reqs), u \in Principals \cup {NULL} :
    /\ last = NoRequest
    /\ reqs[s].pc = "authenticate"
    /\ LET r == AfterAuthenticate(reqs[s], u)
       IN  IF r.pc = "done"
           THEN Complete(s, r)
           ELSE /\ reqs' = [reqs EXCEPT ![s] = r]
                /\ UNCHANGED <<store, destroyed, last, nextSid, buildVars, pathVars, followVars>>

\* auth.authenticate rejects: nothing catches it
AuthenticateRejects ==
  \E s \in 1..Len(reqs) :
    /\ reqs[s].pc = "authenticate"
    /\ last = NoRequest
    /\ Complete(s, [reqs[s] EXCEPT !.authResult = "rejected", !.threw = TRUE,
                                   !.rejected = TRUE,
                                   !.pc = "done"])

\* POST loginPath after the second renderLogin: res.send(login)
LoginErrorRendered ==
  \E s \in 1..Len(reqs) :
    /\ reqs[s].pc = "renderLoginError"
    /\ last = NoRequest
    /\ Complete(s, [reqs[s] EXCEPT !.resp = "formError", !.pc = "done"])

\* What a controller's action resolves to: a page, the empty string, null
\* or undefined.
ActionResults == {"<p>", "", NULL, "undefined"}

\* if (html)
Truthy(v) == v \notin {"", NULL, "undefined"}

\* A handler that would send whatever the action resolved to.
AfterActionSendsAlways(r, oc) ==
  IF oc = "throws"
  THEN [r EXCEPT !.threw = TRUE, !.logged = TRUE, !.pc = "done"]
  ELSE [r EXCEPT !.result = oc, !.resp = "html", !.body = oc, !.pc = "done"]

\* A route's handler after the controller's action settled
AfterAction(r, oc) ==
  IF oc = "throws"
  THEN [r EXCEPT !.threw = TRUE, !.logged = TRUE, !.pc = "done"]
  ELSE IF Truthy(oc)
  THEN [r EXCEPT !.result = oc, !.resp = "html", !.body = oc, !.pc = "done"]
  ELSE [r EXCEPT !.result = oc, !.pc = "done"]

ActionSettles ==
  \E s \in 1..Len(reqs), oc \in ActionResults \cup {"throws"} :
    /\ reqs[s].pc = "action"
    /\ last = NoRequest
    /\ Complete(s, AfterAction(reqs[s], oc))

\* The store drops an entry whose maxAge has passed
Expire ==
  \E k \in DOMAIN store :
    /\ last = NoRequest
    /\ store' = Del(store, k)
    /\ UNCHANGED <<nextSid, reqs, last, destroyed, buildVars, pathVars, followVars>>

\* The handler has returned to the event loop, which takes up other work.
Return ==
  /\ last # NoRequest
  /\ last' = NoRequest
  /\ UNCHANGED <<store, nextSid, reqs, destroyed, buildVars, pathVars, followVars>>

Next ==
  \/ Arrive
  \/ LoginRendered
  \/ AuthenticateReturns
  \/ AuthenticateRejects
  \/ LoginErrorRendered
  \/ ActionSettles
  \/ Expire
  \/ Return

Spec == Init /\ [][Next]_vars

----------------------------------------------------------------------------
(* A client without a session follows the redirects of a router that       *)
(* buildAuthenticatedRouter built for given options and that the host      *)
(* mounted at options.rootPath                                             *)

MaxHops == 3

\* admin.options as AdminBro is configured with: the login and logout paths
\* lie under the root path, which may be "/".
OptionsSet ==
  { ServedOptions,
    [rootPath |-> << "/" >>, loginPath |-> << "/", "l" >>, logoutPath |-> << "/", "o" >>],
    [rootPath |-> << "/", "m", "/", "n" >>, loginPath |-> << "/", "m", "/", "n", "/", "l" >>,
     logoutPath |-> << "/", "m", "/", "n", "/", "o" >>],
    [rootPath |-> << "/", "l" >>, loginPath |-> << "/", "l", "/", "l" >>,
     logoutPath |-> << "/", "l", "/", "o" >>] }

PathSegments == {"l", "o", "r", "x", "m"}

\* Paths below the mount point that a client may ask for.
RelativePaths ==
  { << "/" >>, << "/", "a", ".", "j" >> }
    \cup { << "/", a >> : a \in PathSegments }
    \cup { << "/", a, "/", b >> : a \in PathSegments, b \in PathSegments }

UrlUnder(o, rel) == IF o.rootPath = << "/" >> THEN rel ELSE o.rootPath \o rel

\* loginPath = loginPath.replace(rootPath, '')
RegisteredLoginPath(o) == RemoveFirst(o.loginPath, o.rootPath)

StartsWith(s, p) == Len(p) <= Len(s) /\ SubSeq(s, 1, Len(p)) = p

\* The path the mounted router sees of a URL: the URL less the mount path;
\* << >> for a URL that is not under the mount path.
MountedPath(o, u) ==
  IF o.rootPath = << "/" >> THEN u
  ELSE IF ~StartsWith(u, o.rootPath) THEN << >>
  ELSE IF Len(u) = Len(o.rootPath) THEN << "/" >>
  ELSE IF u[Len(o.rootPath) + 1] = "/" THEN SubSeq(u, Len(o.rootPath) + 1, Len(u))
  ELSE << >>

\* What a GET of URL u without a session is answered with: the login route,
\* registered ahead of the gate, and the gate.
AnswerTo(o, u) ==
  LET p == MountedPath(o, u)
  IN  IF p = << >> THEN [kind |-> "outside", target |-> << >>]
      ELSE IF PathMatch(RegisteredLoginPath(o), p)
      THEN [kind |-> "form", target |-> << >>]
      ELSE IF \E i \in 1..Len(assets) : StringMatch(u, assets[i].path)
      THEN [kind |-> "passed", target |-> << >>]
      ELSE [kind |-> "redirect", target |-> o.loginPath]

InitFollow ==
  /\ options \in OptionsSet
  /\ url \in { UrlUnder(options, rel) : rel \in RelativePaths }
  /\ hops = 0
  /\ page = "none"
  /\ BuildAtRest
  /\ PathAtRest
  /\ ServeAtRest

\* GET loginPath: res.send(login)
LoginFormSent ==
  /\ page = "none"
  /\ AnswerTo(options, url).kind = "form"
  /\ page' = "form"
  /\ UNCHANGED <<options, url, hops, buildVars, pathVars, serveVars>>

\* The gate calls next(): the request is an asset's.
GatePasses ==
  /\ page = "none"
  /\ AnswerTo(options, url).kind = "passed"
  /\ page' = "other"
  /\ UNCHANGED <<options, url, hops, buildVars, pathVars, serveVars>>

\* The gate redirects, and the client follows.
GateRedirects ==
  /\ page = "none"
  /\ hops < MaxHops
  /\ AnswerTo(options, url).kind = "redirect"
  /\ url' = AnswerTo(options, url).target
  /\ hops' = hops + 1
  /\ UNCHANGED <<options, page, buildVars, pathVars, serveVars>>

NextFollow == LoginFormSent \/ GatePasses \/ GateRedirects

SpecFollow == InitFollow /\ [][NextFollow]_vars

----------------------------------------------------------------------------
(* Properties of building a router (SpecBuild) *)

\* The layers of the router the call was given: those of predefinedRouter,
\* none for the router the call creates itself.
GivenLayers == IF predefinedRouter = Absent THEN << >> ELSE predefinedRouter

HandlerLayers(i) ==
  { j \in 1..Len(router) : router[j].name = "handler" /\ router[j].idx = i }

\* C5, as stated: when any of the optional requires failed,
\* buildAuthenticatedRouter throws the configuration error (a plain Error)
\* and the router it was given, or created, has no layer registered on it.
C5_ThrowsBeforeRegistering ==
  (called = "buildAuthenticatedRouter" /\ deps # "all")
    => (thrown = "Error" /\ router = GivenLayers /\ returned = "none")

\* C6, as stated: buildRouter called with something that is not an
\* admin-panel instance throws an error named InvalidArgument, with nothing
\* registered on the router.
C6_ThrowsInvalidArgument ==
  (called = "buildRouter" /\ ~adminArg.isAdmin)
    => (thrown = "InvalidArgument" /\ router = GivenLayers)

\* C6, amended: buildRouter called with a falsy argument, or with an object
\* whose constructor is not named AdminBro, throws an error named
\* WrongArgumentError; called with an object that has no constructor, the
\* check itself throws a TypeError; either way nothing has been registered
\* on the router and nothing is returned.
C6_ThrowsWrongArgumentError ==
  called = "buildRouter" =>
    /\ (~adminArg.truthy \/ adminArg.ctor \notin {"AdminBro", "none"})
         => (thrown = "WrongArgumentError" /\ router = GivenLayers /\ returned = "none")
    /\ (adminArg.truthy /\ adminArg.ctor = "none")
         => (thrown = "TypeError" /\ router = GivenLayers /\ returned = "none")

\* C6 witness: buildRouter was called with a plain object and a predefined
\* router that had a layer of its own.
C6_Witness ==
  /\ called = "buildRouter"
  /\ adminArg.truthy /\ adminArg.ctor = "Object"
  /\ predefinedRouter = << Use("custom") >>
  /\ thrown = "WrongArgumentError"

\* C7: after a build call that did not throw, every GET or POST descriptor
\* has exactly one handler layer, of its method and at its translated path;
\* a descriptor of another method has none; so there are as many handler
\* layers as GET/POST descriptors.
C7_OneHandlerPerGetOrPost ==
  (called # "none" /\ thrown = "none") =>
    /\ \A i \in 1..Len(routes) :
         IF routes[i].method \in {"GET", "POST"}
         THEN /\ Cardinality(HandlerLayers(i)) = 1
              /\ \A j \in HandlerLayers(i) :
                   /\ router[j].kind = "route"
                   /\ router[j].method = routes[i].method
                   /\ router[j].path = expressPath(routes[i].path)
         ELSE HandlerLayers(i) = {}
    /\ Cardinality({ j \in 1..Len(router) : router[j].name = "handler" })
         = Cardinality({ i \in 1..Len(routes) : routes[i].method \in {"GET", "POST"} })

\* C7 witness: buildRouter has registered the routes of a list with a DELETE
\* and a POST descriptor.
C7_Witness ==
  /\ called = "buildRouter" /\ thrown = "none"
  /\ Len(routes) = 2
  /\ routes[1].method = "DELETE" /\ routes[2].method = "POST"
  /\ Cardinality({ j \in 1..Len(router) : router[j].name = "handler" }) = 1

----------------------------------------------------------------------------
(* Properties of the path translation (SpecPath) *)

\* What a template is to become: ":name" for a placeholder, the text itself
\* for a literal segment.
RECURSIVE ExpectedPath(_)
ExpectedPath(t) ==
  IF t = << >> THEN << >>
  ELSE (IF Head(t).ph THEN << ":" >> \o Head(t).text ELSE Head(t).text)
       \o ExpectedPath(Tail(t))

\* C8: the translated path has ":name" for every placeholder "{name}" of
\* the template and every other character as it was.
C8_PlaceholdersTranslated ==
  pstep = "xpath" => xpath = ExpectedPath(tpl)

\* C8 witness: a template with two placeholders around a literal segment
\* has been translated.
C8_Witness ==
  /\ pstep = "xpath"
  /\ Len(tpl) = 3
  /\ tpl[1].ph /\ ~tpl[2].ph /\ tpl[3].ph
  /\ xpath # path
----------------------------------------------------------------------------
(* Properties of serving requests (Spec) *)

\* The requests the state knows of: those in flight and the one that has
\* just completed.
Seen == ({last} \cup {reqs[s] : s \in 1..Len(reqs)}) \ {NoRequest}

IsAssetPath(r) == \E i \in 1..Len(assets) : r.rpath = assets[i].path

IsProtected(r) == ~IsAssetPath(r) /\ r.rpath # loginPath

\* C1, as stated: a request whose session carries no principal and whose
\* URL is neither an asset's path nor the login path is answered by the gate
\* with a redirect to the login path, and no handler is invoked for it.
C1_UnauthenticatedRedirected ==
  \A r \in Seen :
    (r.loaded = NULL /\ IsProtected(r))
      => /\ r.gate = "redirect"
         /\ r.resp = "redirect" /\ r.target = optionsLoginPath
         /\ r.name = "none"

\* C9, as stated: a request to an asset's path passes the gate whatever its
\* session, and the gate lets pass as an asset request only a request that
\* is addressed to an asset's path.
C9_ExactlyAssetsExempt ==
  \A r \in Seen :
    /\ IsAssetPath(r) => (r.gate = "asset" /\ r.resp # "redirect")
    /\ r.gate = "asset" => IsAssetPath(r)

\* C10, as stated: when a route handler's controller or action throws or
\* rejects, or an asset handler throws, the exception is logged and goes no
\* further: no rejected promise, no call of next(err), no response.
C10_ExceptionsCaughtAndLogged ==
  \A r \in Seen :
    (r.name \in {"handler", "asset"} /\ r.threw)
      => (r.logged /\ ~r.rejected /\ ~r.nextErr /\ r.resp = "none")
\* A login POST for which authenticate returned a principal.
IsLogin(r) == r.name = "loginPost" /\ r.authResult \in Principals

\* A login POST for which authenticate returned null.
IsFailedLogin(r) == r.name = "loginPost" /\ r.authResult = NULL

\* This step is the completion of a logout on session k.
LogoutOf(k) == last' # last /\ last'.name = "logout" /\ last'.sid = k

\* This step is the expiry of session k.
ExpiryOf(k) == last' = last /\ reqs' = reqs /\ store' = Del(store, k)

\* Request r has arrived in this step.
ArrivedNow(r) ==
  \/ reqs' = Append(reqs, r)
  \/ reqs' = reqs /\ last = NoRequest /\ last' = r /\ r # NoRequest

\* C2, as stated, in three parts.  A login stores the principal that
\* authenticate returned in its session and answers with a redirect to the
\* root path.  A request to a protected path whose session carries a
\* principal passes the gate and reaches a handler.  And the session keeps
\* carrying a principal, for the requests that come later, until a logout
\* of it or its expiry.
C2_LoginLastsUntilLogoutOrExpiry ==
  /\ [](\A r \in Seen :
          /\ IsLogin(r) =>
               /\ r.sess = r.authResult
               /\ r.resp = "redirect" /\ r.target = rootPath
               /\ r = last => (r.sid \in DOMAIN store /\ store[r.sid] = r.authResult)
          /\ (r.loaded \in Principals /\ IsProtected(r)) =>
               (r.gate \in {"session", "asset"} /\ r.name \in {"handler", "logout"}))
  /\ [][\A k \in DOMAIN store :
          store[k] \in Principals =>
            \/ k \in DOMAIN store' /\ store'[k] \in Principals
            \/ LogoutOf(k)
            \/ ExpiryOf(k)]_vars

\* C3, as stated: after a failed login the session carries no principal,
\* and the answer is not a redirect but the login form with the error
\* message.
C3_FailedLoginUnauthenticated ==
  \A r \in Seen :
    IsFailedLogin(r) =>
      /\ r.sess = NULL
      /\ r.resp # "redirect"
      /\ r.pc = "done" => r.resp = "formError"

\* C3, amended: a failed login leaves the principal of its session as the
\* request found it (none when it found none), and that is what it writes
\* back to the store; the answer is not a redirect but the login form with
\* the error message.
C3_FailedLoginKeepsSession ==
  \A r \in Seen :
    IsFailedLogin(r) =>
      /\ r.sess = r.loaded
      /\ r.resp # "redirect"
      /\ r.pc = "done" =>
           /\ r.resp = "formError"
           /\ r = last => (r.sid \in DOMAIN store /\ store[r.sid] = r.loaded)

\* C3 witness: a failed login has been answered; so has one on a session
\* that carried a principal.
C3_Witness ==
  /\ IsFailedLogin(last)
  /\ last.pc = "done" /\ last.resp = "formError"
  /\ last.loaded \in Principals
  /\ store[last.sid] = last.loaded

\* C4, as stated, in two parts.  A logout destroys its session, which is
\* then gone from the store, and answers with a redirect to the login path.
\* And a request that arrives with the key of a session that a logout has
\* destroyed, no login having been attempted on it since, does not pass the
\* gate on the strength of that session.
C4_LogoutEndsSession ==
  /\ [](\A r \in Seen :
          r.name = "logout" =>
            /\ r.sess = "destroyed"
            /\ r.resp = "redirect" /\ r.target = optionsLoginPath
            /\ r = last => r.sid \notin DOMAIN store)
  /\ [][\A r \in {last'} \cup {reqs'[s] : s \in 1..Len(reqs')} :
          (ArrivedNow(r) /\ r.sid \in destroyed /\ IsProtected(r))
            => r.gate = "redirect"]_vars
----------------------------------------------------------------------------
(* Properties of the router that buildAuthenticatedRouter builds (SpecBuild) *)

\* The place of the layer of that name among the router's layers.
Pos(n) == CHOOSE j \in 1..Len(router) : router[j].name = n

BuilderLayers == { j \in 1..Len(router) : router[j].name \in {"handler", "asset"} }

Authenticated == called = "buildAuthenticatedRouter" /\ thrown = "none"

\* What the router makes of a request that comes without a session, up to
\* the first await of the handler it reaches.
Unauthenticated(q) == Dispatch(NewRequest(q), 0, 1, "ok")

IsBuilderLayer(l) == l.name \in {"handler", "asset"}

\* Middlewares that answer no request: they parse, load the session, and
\* hand the request on.
IsPassThrough(l) ==
  l.kind = "use" /\ l.name \in {"cookieParser", "session", "json", "urlencoded"}

\* The layers registered by the call, behind those the router already had.
Registered == SubSeq(router, Len(GivenLayers) + 1, Len(router))

Count(layers, n) == Cardinality({ j \in 1..Len(layers) : layers[j].name = n })

\* C12: the router that buildAuthenticatedRouter returns has the route and
\* asset handlers that buildRouter registers for the same arguments, the
\* same methods and paths, as many times and in the same order; what it has
\* registered besides, apart from middlewares that answer no request, is one
\* GET and one POST login route, one GET logout route and one gate; and it
\* has registered all of it on the predefined router when one was passed,
\* which is the router it returns.
C12_SameRoutesPlusLoginLogoutGate ==
  Authenticated =>
    LET plain == buildRouter(adminArg, predefinedRouter, routes)
        extra == { j \in 1..Len(Registered) :
                     ~IsBuilderLayer(Registered[j]) /\ ~IsPassThrough(Registered[j]) }
    IN  /\ plain.thrown = "none"
        /\ SelectSeq(router, IsBuilderLayer) = SelectSeq(plain.layers, IsBuilderLayer)
        /\ { Registered[j] : j \in extra }
             = { Route("loginGet", "GET", loginPath, 0),
                 Route("loginPost", "POST", loginPath, 0),
                 Route("logout", "GET", logoutPath, 0),
                 Use("gate") }
        /\ \A n \in {"loginGet", "loginPost", "logout", "gate"} : Count(Registered, n) = 1
        /\ SubSeq(router, 1, Len(GivenLayers)) = GivenLayers
        /\ returned = (IF predefinedRouter = Absent THEN "new" ELSE "predefined")
        /\ returned = plain.returned

\* C12 witness: buildAuthenticatedRouter has returned the predefined router
\* it was passed, with a GET and a POST route registered on it.
C12_Witness ==
  /\ Authenticated
  /\ predefinedRouter = << Use("custom") >>
  /\ returned = "predefined"
  /\ Len(routes) = 2
  /\ routes[1].method = "GET" /\ routes[2].method = "POST"
  /\ Len(SelectSeq(router, IsBuilderLayer)) = 3
\* C19, as stated: with the optional packages installed,
\* buildAuthenticatedRouter called with an argument that buildRouter rejects
\* throws the error that buildRouter throws for it, returns nothing, and
\* leaves the router it was passed, or created, without any layer of its
\* own.
C19_InvalidAdminFailsImmediately ==
  (called = "buildAuthenticatedRouter" /\ deps = "all" /\ AdminCheck(adminArg) # "none")
    => /\ thrown = buildRouter(adminArg, predefinedRouter, routes).thrown
       /\ returned = "none"
       /\ router = GivenLayers

----------------------------------------------------------------------------
(* Properties of the route handlers and of sessions (Spec) *)

\* C13, as stated: the controller that a route handler constructs receives
\* the principal of the request's session when the request passed the gate
\* on the strength of that session, and the absent value when the session
\* carries no principal.
C13_ControllerGetsPrincipal ==
  \A r \in Seen :
    (r.name = "handler" /\ r.ctlUser # "none") =>
      /\ r.gate = "session" => r.ctlUser = r.loaded
      /\ r.loaded = NULL => r.ctlUser = "undefined"
\* C14: a route handler whose action has resolved has sent a body exactly
\* when the result was not empty, and the body is that result; after an
\* empty result (undefined, null, the empty string) it has sent nothing.
C14_SendsExactlyNonEmptyResult ==
  \A r \in Seen :
    (r.name = "handler" /\ r.pc = "done" /\ r.result # "none") =>
      /\ r.resp = "html" <=> r.result \notin {"undefined", NULL, ""}
      /\ r.resp = "html" => r.body = r.result
      /\ r.resp # "html" => (r.resp = "none" /\ r.body = "none")

\* C14 witness: a handler has completed without sending anything, after its
\* action resolved to the empty string.
C14_Witness ==
  /\ last.name = "handler" /\ last.pc = "done"
  /\ last.result = ""
  /\ last.resp = "none"
\* C15, as stated: once a logout has destroyed a session and no request
\* with its key is in flight any more, so that every request that was in
\* flight when the logout ran has completed, the session does not carry a
\* principal, and a protected request with its key is redirected, unless a
\* login POST has arrived on it since the logout.
C15_LogoutSticks ==
  \A k \in destroyed :
    (\A s \in 1..Len(reqs) : reqs[s].sid # k)
      => ~(k \in DOMAIN store /\ store[k] \in Principals)
\* The principal that session k carries in store st, NULL when it carries
\* none or is not there.
PrincipalOf(st, k) == IF k \in DOMAIN st /\ st[k] \in Principals THEN st[k] ELSE NULL

\* This step is one of a request of session k: its arrival or a later part
\* of its handler.
StepOf(k) ==
  \/ last' # last /\ last' # NoRequest /\ last'.sid = k
  \/ \E s \in 1..Len(reqs') : reqs'[s].sid = k /\ (s > Len(reqs) \/ reqs'[s] # reqs[s])

\* C16: whether a session carries a principal, and which, changes only in
\* a step of a request of that same session, or by its expiry; the session
\* a request loads is the stored session of its own key; and two requests
\* with the same URL whose sessions carry the same get the same decision
\* from the gate.
C16_SessionsDoNotInterfere ==
  /\ [](\A r1, r2 \in Seen :
          (/\ r1.gate # "notReached" /\ r2.gate # "notReached"
           /\ r1.loaded = r2.loaded
           /\ originalUrl(r1) = originalUrl(r2))
            => r1.gate = r2.gate)
  /\ [][/\ \A k \in 1..MaxSid :
            PrincipalOf(store', k) # PrincipalOf(store, k) => (StepOf(k) \/ ExpiryOf(k))
        /\ \A r \in {last'} \cup {reqs'[s] : s \in 1..Len(reqs')} :
            ArrivedNow(r) => r.loaded = PrincipalOf(store, r.sid)]_vars

\* C16 witness: a logout has just destroyed one session while another
\* session is in the store with its principal.
C16_Witness ==
  /\ last.name = "logout"
  /\ last.sid \notin DOMAIN store
  /\ \E k \in DOMAIN store : k # last.sid /\ store[k] \in Principals
\* C17, as stated: the principal that a session carries is set only by a
\* login POST on that session, to the principal that authenticate returned,
\* and is removed only by a logout of the session or by its expiry; no other
\* request changes it.
C17_OnlyLoginSetsOnlyLogoutRemoves ==
  [][\A k \in 1..MaxSid :
       PrincipalOf(store', k) # PrincipalOf(store, k) =>
         IF PrincipalOf(store', k) # NULL
         THEN /\ last' # last /\ IsLogin(last') /\ last'.sid = k
              /\ last'.authResult = PrincipalOf(store', k)
         ELSE LogoutOf(k) \/ ExpiryOf(k)]_vars
----------------------------------------------------------------------------
(* Properties of following redirects (SpecFollow) *)

\* C18, as stated: the login path that the gate redirects to is answered by
\* the login route with the form, so a client without a session gets the
\* form after one redirect at most, and is not redirected a second time.
C18_RedirectEndsAtLoginForm ==
  /\ hops <= 1
  /\ (hops = 1 /\ page = "none") => AnswerTo(options, url).kind = "form"
  /\ (hops = 1 /\ page # "none") => page = "form"

====
